---- MODULE Spec2Model ----
(***************************************************************************)
(* Model of the persistence layer of the todo-calendar web application:    *)
(* the useLocalStorage hook (src/hooks/useLocalStorage.js), the storage    *)
(* medium it mirrors, the 'storage' notification channel between browsing  *)
(* contexts, the clearAppData utility, the availability probe             *)
(* (isLocalStorageAvailable, useLocalStorageAvailable) and the TodoForm    *)
(* component (src/components/Todo/TodoForm.jsx).                           *)
(*                                                                         *)
(* One browsing context (tab) is modelled in detail; the other contexts    *)
(* sharing the medium appear through the writes they make to it and the    *)
(* notifications the medium then queues for this context.                  *)
(***************************************************************************)
EXTENDS Integers, Sequences, FiniteSets, TLC

VARIABLES
    storage,      \* window.localStorage: the stored keys -> their raw strings
    status,       \* per binding: "unmounted" | "rendered" | "subscribed"
    bkey,         \* per binding: the `key` argument of useLocalStorage
    storedValue,  \* per binding: the React state cell (the in-memory cache)
    rendered,     \* per binding: the storedValue captured by the setValue
                  \* closure of the latest render
    events,       \* 'storage' events queued for this context, oldest first
    last,         \* the operation that produced the current state
    listeners,    \* binding -> the keys its registered 'storage' handlers test
    owed,         \* binding -> the latest write to its key since it read the
                  \* key was a JSON text written by another context
    mounted,      \* TodoForm: the component is mounted
    todo,         \* TodoForm: the `todo` prop
    formData,     \* TodoForm: the draft, {title, description}
    errors,       \* TodoForm: the error map, field -> message
    touched,      \* TodoForm: the fields marked touched
    pending,      \* TodoForm: the onSubmit invocations not yet completed
    formLast,     \* TodoForm: the event that produced the current state
    isLoading,    \* TodoForm: the `isLoading` prop
    availStatus,  \* useLocalStorageAvailable: position of the component using it
    isAvailable,  \* useLocalStorageAvailable: the status it returns
    probed        \* the latest run of isLocalStorageAvailable

hookVars == <<storage, status, bkey, storedValue, rendered, events, last,
              listeners, owed>>

formVars == <<mounted, todo, formData, errors, touched, pending, formLast,
              isLoading>>

probeVars == <<availStatus, isAvailable, probed>>

vars == <<hookVars, formVars, probeVars>>

----------------------------------------------------------------------------
(* Bounds *)

\* 'storage' events that may be in flight towards this context at once
MaxQueue == 1

\* The onSubmit invocations of the form that may be pending together
MaxPending == 2

----------------------------------------------------------------------------
(* JavaScript values and their JSON text *)

Num(n)    == [type |-> "number", n |-> n, s |-> ""]
Str(s)    == [type |-> "string", n |-> 0, s |-> s]
Bool(b)   == [type |-> "boolean", n |-> IF b THEN 1 ELSE 0, s |-> ""]
Null      == [type |-> "null", n |-> 0, s |-> ""]
Undefined == [type |-> "undefined", n |-> 0, s |-> ""]

\* the values callers store in Spec: a falsy one, a truthy one, and undefined
Values == {Num(0), Num(1), Undefined}

\* the values callers store in SpecValues: every falsy value, truthy values
\* of each type, and undefined
WideValues ==
    {Num(0), Num(1), Num(10), Str(""), Str("a"), Bool(FALSE), Bool(TRUE),
     Null, Undefined}

\* a DOMString-or-null, as getItem answers and as a StorageEvent carries in
\* its key and newValue attributes
Item(text) == [isNull |-> FALSE, text |-> text]
NullItem   == [isNull |-> TRUE, text |-> ""]

Keys == {"todos", "calendarSettings", "otherKey"}

\* the key the bindings of Spec are on, and the keys other contexts write
HookKeys == {"todos"}
SyncKeys == {"todos", "otherKey"}

Bindings == {"b1", "b2"}

Digits == <<"0", "1", "2", "3", "4", "5", "6", "7", "8", "9">>

RECURSIVE DecimalText(_)
DecimalText(n) ==
    IF n < 10 THEN Digits[n + 1]
    ELSE DecimalText(n \div 10) \o Digits[(n % 10) + 1]

\* JSON.stringify(v): the JSON text; defined = FALSE when the result is the
\* value undefined instead of a string
JSONstringify(v) ==
    CASE v.type = "number"    -> [defined |-> TRUE, text |-> DecimalText(v.n)]
      [] v.type = "string"    -> [defined |-> TRUE, text |-> "\"" \o v.s \o "\""]
      [] v.type = "boolean"   -> [defined |-> TRUE,
                                  text |-> IF v.n = 1 THEN "true" ELSE "false"]
      [] v.type = "null"      -> [defined |-> TRUE, text |-> "null"]
      [] v.type = "undefined" -> [defined |-> FALSE, text |-> ""]

\* the string setItem stores for its value argument (it applies String())
SetItemText(x) == IF x.defined THEN x.text ELSE "undefined"

CharAt(raw, i) == SubSeq(raw, i, i)

IsDigit(c) == \E d \in 1..10 : Digits[d] = c

DigitValue(c) == (CHOOSE d \in 1..10 : Digits[d] = c) - 1

RECURSIVE DecimalValue(_, _)
DecimalValue(raw, i) ==
    IF i = 0 THEN 0
    ELSE 10 * DecimalValue(raw, i - 1) + DigitValue(CharAt(raw, i))

IsJSONNumber(raw) ==
    /\ Len(raw) >= 1
    /\ \A i \in 1..Len(raw) : IsDigit(CharAt(raw, i))
    /\ Len(raw) > 1 => CharAt(raw, 1) # "0"

IsJSONString(raw) ==
    /\ Len(raw) >= 2
    /\ CharAt(raw, 1) = "\""
    /\ CharAt(raw, Len(raw)) = "\""
    /\ \A i \in 2..(Len(raw) - 1) : CharAt(raw, i) # "\""

\* JSON.parse(raw): ok = FALSE stands for the SyntaxError it throws
JSONparse(raw) ==
    CASE raw = "null"       -> [ok |-> TRUE, value |-> Null]
      [] raw = "true"       -> [ok |-> TRUE, value |-> Bool(TRUE)]
      [] raw = "false"      -> [ok |-> TRUE, value |-> Bool(FALSE)]
      [] IsJSONNumber(raw)  -> [ok |-> TRUE, value |-> Num(DecimalValue(raw, Len(raw)))]
      [] IsJSONString(raw)  -> [ok |-> TRUE,
                                value |-> Str(SubSeq(raw, 2, Len(raw) - 1))]
      [] OTHER              -> [ok |-> FALSE, value |-> Undefined]

\* truthiness of getItem's answer (`item ? ... : ...`)
Truthy(item) == ~item.isNull /\ item.text # ""

----------------------------------------------------------------------------
(* The storage medium *)

\* localStorage.getItem(k)
GetItem(store, k) == IF k \in DOMAIN store THEN Item(store[k]) ELSE NullItem

\* localStorage.setItem(k, text)
SetItem(store, k, text) ==
    [x \in (DOMAIN store) \cup {k} |-> IF x = k THEN text ELSE store[x]]

\* localStorage.removeItem(k)
RemoveItem(store, k) == [x \in (DOMAIN store) \ {k} |-> store[x]]

EmptyStore == [x \in {} |-> ""]

\* raw strings other contexts put in the medium: a JSON text, the empty
\* string and a text that is not JSON
ExternalRaws == {"1", "", "{bad"}

\* the writes other contexts make in Spec: any of these strings under the
\* bindings' key, a JSON text under the other key
SyncWrites ==
    {<<k, raw>> \in SyncKeys \X ExternalRaws : k \in HookKeys \/ raw = "1"}

----------------------------------------------------------------------------
(* Inputs of the hook *)

InitialValues == {Num(0), Num(1)}

\* the updater handed to setValue: prev => (prev === 0 ? 1 : 0)
Updaters == {"toggle"}

ApplyUpdater(f, prev) == IF prev = Num(0) THEN Num(1) ELSE Num(0)

\* the argument of setValue: a literal value or an updater function
Literal(v) == [isFunction |-> FALSE, fn |-> "", value |-> v]
Updater(f) == [isFunction |-> TRUE, fn |-> f, value |-> Undefined]

SetValueArgs == {Literal(v) : v \in Values} \cup {Updater(f) : f \in Updaters}

----------------------------------------------------------------------------
(* The record of the latest operation *)

Warned(who)  == [level |-> "warn", by |-> who]
Errored(who) == [level |-> "error", by |-> who]

NoOp ==
    [op      |-> "none",       \* the operation
     b       |-> "",           \* the binding it ran on, if one
     key     |-> NullItem,     \* the key it named
     arg     |-> Literal(Undefined),  \* setValue's argument / initialValue
     item    |-> NullItem,     \* the raw string read or notified
     failed  |-> FALSE,        \* the storage access threw
     thrown  |-> FALSE,        \* an error left the operation
     log     |-> {},           \* console.warn / console.error calls made
     follows |-> Literal(Undefined),  \* init: the argument of the successful
     wrote   |-> FALSE,               \* setValue on the same key that the
                                      \* initialisation directly follows
     had     |-> {}]           \* clearAppData: the keys stored before it;
                               \* subscribe: the keys tested before it

----------------------------------------------------------------------------
(* useLocalStorage *)

\* JavaScript truthiness of a value
TruthyValue(v) ==
    /\ v.type \notin {"null", "undefined"}
    /\ v.type = "number" => v.n # 0
    /\ v.type = "boolean" => v.n # 0
    /\ v.type = "string" => v.s # ""

\* variant: the fallback is taken on the decoded value,
\* `JSON.parse(item) || initialValue`
InitialState_FalsyFallback(item, readThrows, initialValue) ==
    IF readThrows THEN initialValue
    ELSE IF ~item.isNull /\ JSONparse(item.text).ok
              /\ TruthyValue(JSONparse(item.text).value)
         THEN JSONparse(item.text).value
         ELSE initialValue

\* variant: the catch block returns nothing instead of initialValue
InitialState_NoFallback(item, readThrows, initialValue) ==
    IF readThrows THEN Undefined
    ELSE IF Truthy(item)
         THEN IF JSONparse(item.text).ok
              THEN JSONparse(item.text).value
              ELSE Undefined
         ELSE initialValue

\* the lazy useState initialiser: the state a binding starts with
InitialState(item, readThrows, initialValue) ==
    IF readThrows THEN initialValue
    ELSE IF Truthy(item)
         THEN IF JSONparse(item.text).ok
              THEN JSONparse(item.text).value
              ELSE initialValue
         ELSE initialValue

\* the try/catch of the initialiser: both failures are caught and warned
InitialOutcome(b, item, readThrows) ==
    [thrown |-> FALSE,
     log    |-> IF readThrows \/ (Truthy(item) /\ ~JSONparse(item.text).ok)
                THEN {Warned(b)} ELSE {}]

\* first render of a component that calls useLocalStorage(key, initialValue)
UseLocalStorage(b, key, initialValue, readThrows) ==
    /\ status[b] = "unmounted"
    /\ LET item == GetItem(storage, key)
           v    == InitialState(item, readThrows, initialValue)
       IN /\ storedValue' = [storedValue EXCEPT ![b] = v]
          /\ rendered' = [rendered EXCEPT ![b] = v]
          /\ last' = [NoOp EXCEPT !.op = "init", !.b = b, !.key = Item(key),
                                  !.arg = Literal(initialValue),
                                  !.item = IF readThrows THEN NullItem ELSE item,
                                  !.failed = readThrows,
                                  !.thrown = InitialOutcome(b, item, readThrows).thrown,
                                  !.log = InitialOutcome(b, item, readThrows).log,
                                  !.wrote = /\ last.op = "setValue"
                                            /\ ~last.failed
                                            /\ last.key = Item(key),
                                  !.follows = IF /\ last.op = "setValue"
                                                 /\ ~last.failed
                                                 /\ last.key = Item(key)
                                              THEN last.arg
                                              ELSE Literal(Undefined)]
    /\ status' = [status EXCEPT ![b] = "rendered"]
    /\ bkey' = [bkey EXCEPT ![b] = key]
    /\ owed' = [owed EXCEPT ![b] = FALSE]
    /\ UNCHANGED <<storage, events, listeners>>
    /\ UNCHANGED <<formVars, probeVars>>

\* the keys the registered handlers of binding b test e.key against
Filters(b) == {listeners[b][i] : i \in 1..Len(listeners[b])}

\* variant: the effect returns no cleanup
Cleanup_Leak(ls) == ls

\* the cleanup of the effect that ran last, if one ran:
\* window.removeEventListener('storage', handleStorageChange)
Cleanup(ls) == IF ls = <<>> THEN <<>> ELSE SubSeq(ls, 1, Len(ls) - 1)

\* the effect on [key] of the latest render, after the cleanup of the one
\* before it: window.addEventListener('storage', handleStorageChange)
Subscribe(b) ==
    /\ status[b] = "rendered"
    /\ status' = [status EXCEPT ![b] = "subscribed"]
    /\ listeners' = [listeners EXCEPT ![b] = Append(Cleanup(listeners[b]), bkey[b])]
    /\ last' = [NoOp EXCEPT !.op = "subscribe", !.b = b, !.key = Item(bkey[b]),
                            !.had = Filters(b)]
    /\ UNCHANGED <<storage, bkey, storedValue, rendered, events, owed>>
    /\ UNCHANGED <<formVars, probeVars>>

\* the component renders again with another key: the state is kept, no read
\* is made, and the effect on [key] is due
Rekey(b, key) ==
    /\ status[b] = "subscribed"
    /\ key # bkey[b]
    /\ bkey' = [bkey EXCEPT ![b] = key]
    /\ status' = [status EXCEPT ![b] = "rendered"]
    /\ owed' = [owed EXCEPT ![b] = FALSE]
    /\ last' = [NoOp EXCEPT !.op = "rekey", !.b = b, !.key = Item(key)]
    /\ UNCHANGED <<storage, storedValue, rendered, events, listeners>>
    /\ UNCHANGED <<formVars, probeVars>>

\* the value setValue resolves from its argument and the storedValue its
\* closure captured
ValueToStore(arg, captured) ==
    IF arg.isFunction THEN ApplyUpdater(arg.fn, captured) ELSE arg.value

\* variant: the write comes first, so a throwing write skips setStoredValue
StateAfterSetValue_WriteFirst(valueToStore, previous, writeThrows) ==
    IF writeThrows THEN previous ELSE valueToStore

\* the state cell after setValue: setStoredValue runs before the write, and
\* the catch block does not undo it
StateAfterSetValue(valueToStore, previous, writeThrows) == valueToStore

\* the medium after setValue
StorageAfterSetValue(store, key, valueToStore, writeThrows) ==
    IF writeThrows THEN store
    ELSE SetItem(store, key, SetItemText(JSONstringify(valueToStore)))

\* the try/catch of setValue: a failed write is caught and logged
SetValueOutcome(b, writeThrows) ==
    [thrown |-> FALSE,
     log    |-> IF writeThrows THEN {Errored(b)} ELSE {}]

\* setValue(arg); writeThrows: localStorage.setItem throws
SetValue(b, arg, writeThrows) ==
    /\ status[b] = "subscribed"
    /\ LET valueToStore == ValueToStore(arg, rendered[b])
       IN /\ storedValue' = [storedValue EXCEPT ![b] =
                StateAfterSetValue(valueToStore, storedValue[b], writeThrows)]
          /\ storage' = StorageAfterSetValue(storage, bkey[b], valueToStore,
                                             writeThrows)
          /\ last' = [NoOp EXCEPT !.op = "setValue", !.b = b,
                                  !.key = Item(bkey[b]), !.arg = arg,
                                  !.failed = writeThrows,
                                  !.thrown = SetValueOutcome(b, writeThrows).thrown,
                                  !.log = SetValueOutcome(b, writeThrows).log]
    /\ owed' = [x \in Bindings |->
                   IF x = b \/ (~writeThrows /\ bkey[x] = bkey[b]) THEN FALSE
                   ELSE owed[x]]
    /\ UNCHANGED <<status, bkey, rendered, events, listeners>>
    /\ UNCHANGED <<formVars, probeVars>>

\* React re-renders the component: setValue is re-created over the new state
Render(b) ==
    /\ status[b] = "subscribed"
    /\ rendered[b] # storedValue[b]
    /\ rendered' = [rendered EXCEPT ![b] = storedValue[b]]
    /\ last' = [NoOp EXCEPT !.op = "render", !.b = b, !.key = Item(bkey[b])]
    /\ UNCHANGED <<storage, status, bkey, storedValue, events, listeners, owed>>
    /\ UNCHANGED <<formVars, probeVars>>

\* variant: the decoded value is never handed to setStoredValue
HandleStorageChange_NotAdopted(b, e) ==
    IF (~e.key.isNull /\ e.key.text \in Filters(b)) /\ ~e.newValue.isNull
    THEN IF JSONparse(e.newValue.text).ok
         THEN [state |-> storedValue[b], log |-> {}, thrown |-> FALSE]
         ELSE [state |-> storedValue[b], log |-> {Warned(b)}, thrown |-> FALSE]
    ELSE [state |-> storedValue[b], log |-> {}, thrown |-> FALSE]

\* variant: no `e.newValue !== null` test, so a removal reaches
\* JSON.parse(null), which is null
HandleStorageChange_RemovalParsed(b, e) ==
    IF ~e.key.isNull /\ e.key.text \in Filters(b)
    THEN IF e.newValue.isNull
         THEN [state |-> Null, log |-> {}, thrown |-> FALSE]
         ELSE IF JSONparse(e.newValue.text).ok
              THEN [state |-> JSONparse(e.newValue.text).value,
                    log |-> {}, thrown |-> FALSE]
              ELSE [state |-> storedValue[b], log |-> {Warned(b)},
                    thrown |-> FALSE]
    ELSE [state |-> storedValue[b], log |-> {}, thrown |-> FALSE]

\* variant: JSON.parse outside the try block, its error leaving the handler
HandleStorageChange_Uncaught(b, e) ==
    IF (~e.key.isNull /\ e.key.text \in Filters(b)) /\ ~e.newValue.isNull
    THEN IF JSONparse(e.newValue.text).ok
         THEN [state |-> JSONparse(e.newValue.text).value,
               log |-> {}, thrown |-> FALSE]
         ELSE [state |-> storedValue[b], log |-> {}, thrown |-> TRUE]
    ELSE [state |-> storedValue[b], log |-> {}, thrown |-> FALSE]

\* handleStorageChange(e) of binding b: the state it leaves and what it logs
HandleStorageChange(b, e) ==
    IF (~e.key.isNull /\ e.key.text \in Filters(b)) /\ ~e.newValue.isNull
    THEN IF JSONparse(e.newValue.text).ok
         THEN [state |-> JSONparse(e.newValue.text).value,
               log |-> {}, thrown |-> FALSE]
         ELSE [state |-> storedValue[b], log |-> {Warned(b)}, thrown |-> FALSE]
    ELSE [state |-> storedValue[b], log |-> {}, thrown |-> FALSE]

\* the window dispatches the oldest queued 'storage' event to every listener
DispatchStorageEvent ==
    /\ events # <<>>
    /\ LET e == Head(events)
           listening == {b \in Bindings : listeners[b] # <<>>}
       IN /\ storedValue' =
                [b \in Bindings |-> IF b \in listening
                                    THEN HandleStorageChange(b, e).state
                                    ELSE storedValue[b]]
          /\ last' = [NoOp EXCEPT !.op = "storage", !.key = e.key,
                                  !.item = e.newValue,
                                  !.thrown = \E b \in listening :
                                                HandleStorageChange(b, e).thrown,
                                  !.log = UNION {HandleStorageChange(b, e).log :
                                                   b \in listening}]
    /\ events' = Tail(events)
    /\ UNCHANGED <<storage, status, bkey, rendered, listeners, owed>>
    /\ UNCHANGED <<formVars, probeVars>>

\* the effect's cleanup: window.removeEventListener, and the state is dropped
Unmount(b) ==
    /\ status[b] = "subscribed"
    /\ status' = [status EXCEPT ![b] = "unmounted"]
    /\ bkey' = [bkey EXCEPT ![b] = ""]
    /\ storedValue' = [storedValue EXCEPT ![b] = Undefined]
    /\ rendered' = [rendered EXCEPT ![b] = Undefined]
    /\ listeners' = [listeners EXCEPT ![b] = Cleanup(listeners[b])]
    /\ owed' = [owed EXCEPT ![b] = FALSE]
    /\ last' = [NoOp EXCEPT !.op = "unmount", !.b = b]
    /\ UNCHANGED <<storage, events>>
    /\ UNCHANGED <<formVars, probeVars>>

----------------------------------------------------------------------------
(* clearAppData *)

\* owed after the keys in `removed` were removed from the medium
OwedAfterRemoval(removed) ==
    [b \in Bindings |-> IF bkey[b] \in removed THEN FALSE ELSE owed[b]]

keysToRemove == <<"todos", "calendarSettings">>

\* variant: the application's data is dropped with localStorage.clear()
RemoveFirst_Clear(store, n) == IF n = 0 THEN store ELSE EmptyStore

\* the store after removeItem on keysToRemove[1..n], in order
RECURSIVE RemoveFirst(_, _)
RemoveFirst(store, n) ==
    IF n = 0 THEN store
    ELSE RemoveItem(RemoveFirst(store, n - 1), keysToRemove[n])

\* variant: no try/catch around the removals
ClearAppDataOutcome_Uncaught(throwsAt) ==
    [thrown |-> throwsAt > 0, log |-> {}]

\* the try/catch of clearAppData: a failed removal is caught and logged
ClearAppDataOutcome(throwsAt) ==
    [thrown |-> FALSE,
     log    |-> IF throwsAt > 0 THEN {Errored("clearAppData")} ELSE {}]

\* clearAppData(); throwsAt = i > 0: the i-th removeItem throws, which ends
\* the forEach; throwsAt = 0: none throws
ClearAppData(throwsAt) ==
    /\ storage' = RemoveFirst(storage, IF throwsAt = 0 THEN Len(keysToRemove)
                                       ELSE throwsAt - 1)
    /\ last' = [NoOp EXCEPT !.op = "clearAppData",
                            !.failed = throwsAt > 0,
                            !.thrown = ClearAppDataOutcome(throwsAt).thrown,
                            !.log = ClearAppDataOutcome(throwsAt).log,
                            !.had = DOMAIN storage]
    /\ owed' = OwedAfterRemoval(
                   DOMAIN storage \ DOMAIN RemoveFirst(storage,
                       IF throwsAt = 0 THEN Len(keysToRemove) ELSE throwsAt - 1))
    /\ UNCHANGED <<status, bkey, storedValue, rendered, events, listeners>>
    /\ UNCHANGED <<formVars, probeVars>>

----------------------------------------------------------------------------
(* Other browsing contexts sharing the medium *)

StorageEvent(key, newValue) == [key |-> key, newValue |-> newValue]

\* another context calls setItem(k, raw): the medium notifies this context
\* when the stored string changed
ExternalSetItem(k, raw) ==
    /\ Len(events) < MaxQueue
    /\ GetItem(storage, k) # Item(raw)
    /\ storage' = SetItem(storage, k, raw)
    /\ events' = Append(events, StorageEvent(Item(k), Item(raw)))
    /\ owed' = [b \in Bindings |->
                   IF status[b] # "unmounted" /\ bkey[b] = k
                   THEN JSONparse(raw).ok ELSE owed[b]]
    /\ last' = [NoOp EXCEPT !.op = "external"]
    /\ UNCHANGED <<status, bkey, storedValue, rendered, listeners>>
    /\ UNCHANGED <<formVars, probeVars>>

\* another context calls removeItem(k) on a stored key
ExternalRemoveItem(k) ==
    /\ Len(events) < MaxQueue
    /\ k \in DOMAIN storage
    /\ storage' = RemoveItem(storage, k)
    /\ events' = Append(events, StorageEvent(Item(k), NullItem))
    /\ owed' = OwedAfterRemoval({k})
    /\ last' = [NoOp EXCEPT !.op = "external"]
    /\ UNCHANGED <<status, bkey, storedValue, rendered, listeners>>
    /\ UNCHANGED <<formVars, probeVars>>

\* another context calls clear() on a non-empty medium
ExternalClear ==
    /\ Len(events) < MaxQueue
    /\ DOMAIN storage # {}
    /\ storage' = EmptyStore
    /\ events' = Append(events, StorageEvent(NullItem, NullItem))
    /\ owed' = OwedAfterRemoval(DOMAIN storage)
    /\ last' = [NoOp EXCEPT !.op = "external"]
    /\ UNCHANGED <<status, bkey, storedValue, rendered, listeners>>
    /\ UNCHANGED <<formVars, probeVars>>

----------------------------------------------------------------------------
(* isLocalStorageAvailable and useLocalStorageAvailable *)

testKey == "__localStorage_test__"

\* No run of the probe yet
NoProbe ==
    [ran |-> FALSE, window |-> FALSE, setFailed |-> FALSE, removeFailed |-> FALSE,
     result |-> FALSE, thrown |-> FALSE]

\* The probe reporting on the trial write alone
isLocalStorageAvailable_WriteOnly(store, hasWindow, setThrows, removeThrows) ==
    IF ~hasWindow THEN [result |-> FALSE, store |-> store, thrown |-> FALSE]
    ELSE IF setThrows THEN [result |-> FALSE, store |-> store, thrown |-> FALSE]
    ELSE IF removeThrows
         THEN [result |-> TRUE, store |-> SetItem(store, testKey, "test"),
               thrown |-> FALSE]
    ELSE [result |-> TRUE,
          store |-> RemoveItem(SetItem(store, testKey, "test"), testKey),
          thrown |-> FALSE]

\* isLocalStorageAvailable(): its return value, the medium it leaves and
\* whether an error left it; hasWindow is typeof window !== 'undefined',
\* setThrows and removeThrows are the medium's behaviour on the trial calls
isLocalStorageAvailable(store, hasWindow, setThrows, removeThrows) ==
    IF ~hasWindow THEN [result |-> FALSE, store |-> store, thrown |-> FALSE]
    ELSE IF setThrows THEN [result |-> FALSE, store |-> store, thrown |-> FALSE]
    ELSE IF removeThrows
         THEN [result |-> FALSE, store |-> SetItem(store, testKey, "test"),
               thrown |-> FALSE]
    ELSE [result |-> TRUE,
          store |-> RemoveItem(SetItem(store, testKey, "test"), testKey),
          thrown |-> FALSE]

ProbeRecord(hasWindow, setThrows, removeThrows) ==
    [ran |-> TRUE, window |-> hasWindow,
     setFailed |-> hasWindow /\ setThrows,
     removeFailed |-> hasWindow /\ ~setThrows /\ removeThrows,
     result |-> isLocalStorageAvailable(storage, hasWindow, setThrows, removeThrows).result,
     thrown |-> isLocalStorageAvailable(storage, hasWindow, setThrows, removeThrows).thrown]

\* A component renders useLocalStorageAvailable() for the first time
UseLocalStorageAvailable ==
    /\ availStatus = "unmounted"
    /\ availStatus' = "rendered"
    /\ isAvailable' = FALSE
    /\ probed' = NoProbe
    /\ UNCHANGED <<hookVars, formVars>>

\* The effect of that render: setIsAvailable(isLocalStorageAvailable())
CheckAvailable(setThrows, removeThrows) ==
    /\ availStatus = "rendered"
    /\ availStatus' = "checked"
    /\ isAvailable' = isLocalStorageAvailable(storage, TRUE, setThrows, removeThrows).result
    /\ storage' = isLocalStorageAvailable(storage, TRUE, setThrows, removeThrows).store
    /\ probed' = ProbeRecord(TRUE, setThrows, removeThrows)
    /\ UNCHANGED <<status, bkey, storedValue, rendered, events, last,
                   listeners, owed>>
    /\ UNCHANGED formVars

\* isLocalStorageAvailable() called on its own, with or without a window,
\* while no component uses the status
CallIsLocalStorageAvailable(hasWindow, setThrows, removeThrows) ==
    /\ availStatus = "unmounted"
    /\ storage' = isLocalStorageAvailable(storage, hasWindow, setThrows, removeThrows).store
    /\ probed' = ProbeRecord(hasWindow, setThrows, removeThrows)
    /\ UNCHANGED <<status, bkey, storedValue, rendered, events, last,
                   listeners, owed>>
    /\ UNCHANGED <<formVars, availStatus, isAvailable>>

\* The component is removed
UnmountAvailable ==
    /\ availStatus = "checked"
    /\ availStatus' = "unmounted"
    /\ isAvailable' = FALSE
    /\ probed' = NoProbe
    /\ UNCHANGED <<hookVars, formVars>>

----------------------------------------------------------------------------
(* TodoForm: strings, drafts and validation *)

\* c repeated n times
RECURSIVE Repeat(_, _)
Repeat(c, n) ==
    IF n = 0 THEN ""
    ELSE LET half == Repeat(c, n \div 2)
         IN  IF n % 2 = 0 THEN half \o half ELSE half \o half \o c

\* The characters String.prototype.trim strips
WhiteSpace == {" ", "\t", "\n"}

\* The first and the last position in lo..hi of s holding a character that
\* is not white space, 0 if there is none
RECURSIVE FirstInk(_, _, _)
FirstInk(s, lo, hi) ==
    IF lo > hi THEN 0
    ELSE IF lo = hi THEN (IF CharAt(s, lo) \in WhiteSpace THEN 0 ELSE lo)
    ELSE LET mid == (lo + hi) \div 2
             left == FirstInk(s, lo, mid)
         IN  IF left # 0 THEN left ELSE FirstInk(s, mid + 1, hi)

RECURSIVE LastInk(_, _, _)
LastInk(s, lo, hi) ==
    IF lo > hi THEN 0
    ELSE IF lo = hi THEN (IF CharAt(s, lo) \in WhiteSpace THEN 0 ELSE lo)
    ELSE LET mid == (lo + hi) \div 2
             right == LastInk(s, mid + 1, hi)
         IN  IF right # 0 THEN right ELSE LastInk(s, lo, mid)

\* String.prototype.trim
Trim(s) ==
    IF FirstInk(s, 1, Len(s)) = 0 THEN ""
    ELSE SubSeq(s, FirstInk(s, 1, Len(s)), LastInk(s, 1, Len(s)))

MaxTitleLength == 100

MaxDescriptionLength == 500

TitleRequired == "Title is required"

TitleTooLong == "Title must be 100 characters or less"

DescriptionTooLong == "Description must be 500 characters or less"

FailedToSave == "Failed to save todo"

Fields == {"title", "description"}

\* The object {} and the object {field: value}
NoEntries == [f \in {} |-> ""]

Entry(field, value) == field :> value

\* obj[field] read for its truthiness: a missing entry and '' are both falsy
Has(obj, field) == field \in DOMAIN obj /\ obj[field] # ""

\* {...prev, [field]: value}
Spread(prev, field, value) == Entry(field, value) @@ prev

EmptyDraft == [title |-> "", description |-> ""]

\* validateForm's newErrors for a draft, with the description trimmed before
\* it is measured
validateForm_TrimmedDescription(fd) ==
    (IF Trim(fd.title) = "" THEN Entry("title", TitleRequired)
     ELSE IF Len(Trim(fd.title)) > MaxTitleLength THEN Entry("title", TitleTooLong)
     ELSE NoEntries)
    @@ (IF Len(Trim(fd.description)) > MaxDescriptionLength
        THEN Entry("description", DescriptionTooLong) ELSE NoEntries)

\* validateForm's newErrors for a draft
validateForm(fd) ==
    (IF Trim(fd.title) = "" THEN Entry("title", TitleRequired)
     ELSE IF Len(Trim(fd.title)) > MaxTitleLength THEN Entry("title", TitleTooLong)
     ELSE NoEntries)
    @@ (IF Len(fd.description) > MaxDescriptionLength
        THEN Entry("description", DescriptionTooLong) ELSE NoEntries)

\* Object.keys(newErrors).length === 0
IsValid(fd) == DOMAIN validateForm(fd) = {}

----------------------------------------------------------------------------
(* TodoForm: props and inputs *)

\* The `todo` prop: null, or a todo of the caller's
NoTodo == [isNull |-> TRUE, id |-> "", title |-> "", description |-> ""]

Todo(id, title, description) ==
    [isNull |-> FALSE, id |-> id, title |-> title, description |-> description]

PaddedTitle == " " \o Repeat("x", MaxTitleLength) \o " "

LongTitle == Repeat("x", MaxTitleLength + 1)

FullDescription == Repeat("y", MaxDescriptionLength)

BlankDescription == Repeat(" ", MaxDescriptionLength + 1)

TodoProps == {NoTodo, Todo("t1", " a ", " d "), Todo("t2", " \t", BlankDescription)}

TitleInputs == {"", " a ", PaddedTitle, LongTitle}

DescriptionInputs == {"", FullDescription, BlankDescription}

FieldInputs(field) == IF field = "title" THEN TitleInputs ELSE DescriptionInputs

\* error.message of the rejection of onSubmit
Messages == {"", "Server error"}

selectedDate == "2025-01-15"

NoPayload == [title |-> "", description |-> "", date |-> ""]

\* formLast: the latest event on the form
NoFormOp ==
    [op          |-> "none",     \* the event
     field       |-> "",         \* change, blur: the field it was on
     value       |-> "",         \* change: the value typed
     invoked     |-> 0,          \* the onSubmit invocations it made
     payload     |-> NoPayload,  \* the argument it passed to onSubmit
     setters     |-> {},         \* the state setters it called
     fresh       |-> FALSE,      \* no user event since the todo was replaced
     titleFailed |-> FALSE,      \* the latest submit attempt failed on the title
     retry       |-> FALSE,      \* submit: the attempt before it failed on the title
     stale       |-> FALSE,      \* resolve, reject: the invocation was made
                                 \* for a todo since replaced
     orphan      |-> FALSE]      \* resolve, reject: the invocation was made
                                 \* by a form since unmounted

----------------------------------------------------------------------------
(* TodoForm: the component *)

\* The draft the effect on [todo] seeds
Seed(t) ==
    IF ~t.isNull THEN [title |-> t.title, description |-> t.description]
    ELSE EmptyDraft

\* First render and its effect
MountForm(t) ==
    /\ ~mounted
    /\ mounted' = TRUE
    /\ todo' = t
    /\ formData' = Seed(t)
    /\ errors' = NoEntries
    /\ touched' = {}
    /\ formLast' = [NoFormOp EXCEPT !.op = "mount",
                        !.setters = {"setFormData", "setErrors", "setTouched"}]
    /\ isLoading' = FALSE
    /\ UNCHANGED pending
    /\ UNCHANGED <<hookVars, probeVars>>

\* The caller passes another todo: render and the effect on [todo]
SwitchTodo(t) ==
    /\ mounted
    /\ t # todo
    /\ todo' = t
    /\ formData' = Seed(t)
    /\ errors' = NoEntries
    /\ touched' = {}
    /\ pending' = [i \in 1..Len(pending) |-> [pending[i] EXCEPT !.current = FALSE]]
    /\ formLast' = [NoFormOp EXCEPT !.op = "switch", !.fresh = TRUE,
                        !.setters = {"setFormData", "setErrors", "setTouched"}]
    /\ UNCHANGED <<mounted, isLoading>>
    /\ UNCHANGED <<hookVars, probeVars>>

\* handleInputChange running the full validation on the new draft
HandleInputChange_Validating(field, value) ==
    /\ mounted
    /\ ~isLoading
    /\ formData' = [formData EXCEPT ![field] = value]
    /\ errors' = validateForm([formData EXCEPT ![field] = value])
    /\ formLast' = [NoFormOp EXCEPT !.op = "change", !.field = field, !.value = value,
                        !.titleFailed = formLast.titleFailed,
                        !.setters = {"setFormData", "setErrors"}]
    /\ UNCHANGED <<mounted, todo, touched, pending, isLoading>>
    /\ UNCHANGED <<hookVars, probeVars>>

\* handleInputChange(field)(e), e.target.value = value; the inputs are
\* disabled={isLoading} and a disabled input takes no typing
HandleInputChange(field, value) ==
    /\ mounted
    /\ ~isLoading
    /\ formData' = [formData EXCEPT ![field] = value]
    /\ errors' = IF Has(errors, field) THEN Spread(errors, field, "") ELSE errors
    /\ formLast' = [NoFormOp EXCEPT !.op = "change", !.field = field, !.value = value,
                        !.titleFailed = formLast.titleFailed,
                        !.setters = IF Has(errors, field)
                                    THEN {"setFormData", "setErrors"}
                                    ELSE {"setFormData"}]
    /\ UNCHANGED <<mounted, todo, touched, pending, isLoading>>
    /\ UNCHANGED <<hookVars, probeVars>>

\* handleInputBlur(field)()
HandleInputBlur(field) ==
    /\ mounted
    /\ touched' = touched \cup {field}
    /\ errors' = IF field = "title" /\ Trim(formData.title) = ""
                 THEN Spread(errors, "title", TitleRequired)
                 ELSE errors
    /\ formLast' = [NoFormOp EXCEPT !.op = "blur", !.field = field,
                        !.titleFailed = formLast.titleFailed,
                        !.setters = IF field = "title" /\ Trim(formData.title) = ""
                                    THEN {"setTouched", "setErrors"}
                                    ELSE {"setTouched"}]
    /\ UNCHANGED <<mounted, todo, formData, pending, isLoading>>
    /\ UNCHANGED <<hookVars, probeVars>>

\* The draft passed to onSubmit as it was typed
Payload_Untrimmed(fd) ==
    [title |-> fd.title, description |-> fd.description, date |-> selectedDate]

\* The argument handleSubmit passes to onSubmit
Payload(fd) ==
    [title |-> Trim(fd.title), description |-> Trim(fd.description),
     date |-> selectedDate]

\* handleSubmit(e) up to its await: the state it leaves and the invocation of
\* onSubmit it makes; `via` is the path that called it
SubmitStep(via) ==
    /\ mounted
    /\ IsValid(formData) => Len(pending) < MaxPending
    /\ touched' = Fields
    /\ errors' = validateForm(formData)
    /\ pending' = IF IsValid(formData)
                  THEN Append(pending, [current |-> TRUE, live |-> TRUE])
                  ELSE pending
    /\ formLast' = [NoFormOp EXCEPT
                        !.op = via,
                        !.titleFailed = "title" \in DOMAIN validateForm(formData),
                        !.retry = formLast.titleFailed,
                        !.invoked = IF IsValid(formData) THEN 1 ELSE 0,
                        !.payload = IF IsValid(formData) THEN Payload(formData)
                                    ELSE NoPayload,
                        !.setters = {"setTouched", "setErrors"}]
    /\ UNCHANGED <<mounted, todo, formData, isLoading>>
    /\ UNCHANGED <<hookVars, probeVars>>

\* disabled={isLoading || !formData.title.trim()} of the submit button
SubmitDisabled == isLoading \/ Trim(formData.title) = ""

\* The form's submit event, from the submit button while it is enabled
HandleSubmit ==
    /\ ~SubmitDisabled
    /\ SubmitStep("submit")

\* handleCancel(): the caller's onCancel, no state of the form
HandleCancel ==
    /\ mounted
    /\ formLast' = [NoFormOp EXCEPT !.op = "cancel",
                        !.titleFailed = formLast.titleFailed]
    /\ UNCHANGED <<mounted, todo, formData, errors, touched, pending, isLoading>>
    /\ UNCHANGED <<hookVars, probeVars>>

\* The Cancel button, disabled={isLoading}, is clicked
ClickCancel ==
    /\ ~isLoading
    /\ HandleCancel

PressedKeys == {"Enter", "Escape", "a"}

\* handleKeyPress with the shortcut passing the draft to onSubmit unvalidated
HandleKeyPress_Unvalidated(key, mod) ==
    IF key = "Enter" /\ mod
    THEN /\ mounted
         /\ Len(pending) < MaxPending
         /\ pending' = Append(pending, [current |-> TRUE, live |-> TRUE])
         /\ formLast' = [NoFormOp EXCEPT !.op = "shortcut", !.invoked = 1,
                             !.payload = Payload(formData)]
         /\ UNCHANGED <<mounted, todo, formData, errors, touched, isLoading>>
         /\ UNCHANGED <<hookVars, probeVars>>
    ELSE IF key = "Escape" THEN HandleCancel
    ELSE /\ mounted
         /\ formLast' = [NoFormOp EXCEPT !.op = "key",
                             !.titleFailed = formLast.titleFailed]
         /\ UNCHANGED <<mounted, todo, formData, errors, touched, pending, isLoading>>
         /\ UNCHANGED <<hookVars, probeVars>>

\* handleKeyPress(e): e.key = key, mod = e.ctrlKey || e.metaKey. It is the
\* form's onKeyDown and tests no isLoading: it runs whenever a keydown reaches
\* the form, which while the controls are disabled is up to the browser (the
\* control that had the focus when it was disabled may keep it and still be
\* sent key events)
HandleKeyPress(key, mod) ==
    IF key = "Enter" /\ mod THEN SubmitStep("shortcut")
    ELSE IF key = "Escape" THEN HandleCancel
    ELSE /\ mounted
         /\ formLast' = [NoFormOp EXCEPT !.op = "key",
                             !.titleFailed = formLast.titleFailed]
         /\ UNCHANGED <<mounted, todo, formData, errors, touched, pending, isLoading>>
         /\ UNCHANGED <<hookVars, probeVars>>

Without(seq, i) == SubSeq(seq, 1, i - 1) \o SubSeq(seq, i + 1, Len(seq))

\* The promise of the i-th pending onSubmit resolves: handleSubmit returns
ResolveSubmit(i) ==
    /\ i \in 1..Len(pending)
    /\ pending' = Without(pending, i)
    /\ formLast' = [NoFormOp EXCEPT !.op = "resolve", !.fresh = formLast.fresh,
                        !.stale = ~pending[i].current,
                        !.orphan = ~pending[i].live,
                        !.titleFailed = formLast.titleFailed]
    /\ UNCHANGED <<mounted, todo, formData, errors, touched, isLoading>>
    /\ UNCHANGED <<hookVars, probeVars>>

\* The error map handleSubmit's catch sets
SubmitError(message) ==
    Entry("submit", IF message # "" THEN message ELSE FailedToSave)

\* The promise of the i-th pending onSubmit rejects with error.message =
\* message: handleSubmit's catch. It calls setErrors whether or not the form
\* is still mounted; React drops the update of an unmounted component, and
\* the setter is that of the form that made the invocation.
RejectSubmit(i, message) ==
    /\ i \in 1..Len(pending)
    /\ pending' = Without(pending, i)
    /\ errors' = IF pending[i].live THEN SubmitError(message) ELSE errors
    /\ formLast' = [NoFormOp EXCEPT !.op = "reject", !.fresh = formLast.fresh,
                        !.stale = ~pending[i].current,
                        !.orphan = ~pending[i].live,
                        !.titleFailed = formLast.titleFailed,
                        !.setters = {"setErrors"}]
    /\ UNCHANGED <<mounted, todo, formData, touched, isLoading>>
    /\ UNCHANGED <<hookVars, probeVars>>

\* The caller renders the form with another isLoading
SetLoading(v) ==
    /\ mounted
    /\ v # isLoading
    /\ isLoading' = v
    /\ formLast' = [NoFormOp EXCEPT !.op = "loading", !.fresh = formLast.fresh,
                        !.titleFailed = formLast.titleFailed]
    /\ UNCHANGED <<mounted, todo, formData, errors, touched, pending>>
    /\ UNCHANGED <<hookVars, probeVars>>

\* The caller removes the form
UnmountForm ==
    /\ mounted
    /\ mounted' = FALSE
    /\ pending' = [i \in 1..Len(pending) |-> [pending[i] EXCEPT !.live = FALSE]]
    /\ formLast' = [NoFormOp EXCEPT !.op = "unmount"]
    /\ UNCHANGED <<todo, formData, errors, touched, isLoading>>
    /\ UNCHANGED <<hookVars, probeVars>>

----------------------------------------------------------------------------
(* The system *)

Init ==
    /\ storage = EmptyStore
    /\ status = [b \in Bindings |-> "unmounted"]
    /\ bkey = [b \in Bindings |-> ""]
    /\ storedValue = [b \in Bindings |-> Undefined]
    /\ rendered = [b \in Bindings |-> Undefined]
    /\ events = <<>>
    /\ last = NoOp
    /\ listeners = [b \in Bindings |-> <<>>]
    /\ owed = [b \in Bindings |-> FALSE]
    /\ mounted = FALSE
    /\ todo = NoTodo
    /\ formData = EmptyDraft
    /\ errors = NoEntries
    /\ touched = {}
    /\ pending = <<>>
    /\ formLast = NoFormOp
    /\ isLoading = FALSE
    /\ availStatus = "unmounted"
    /\ isAvailable = FALSE
    /\ probed = NoProbe

\* One context with bindings on the "todos" key, other contexts writing that
\* key and a key no binding is on
Next ==
    \/ \E b \in Bindings, k \in HookKeys, iv \in InitialValues, t \in BOOLEAN :
          UseLocalStorage(b, k, iv, t)
    \/ \E b \in Bindings : Subscribe(b)
    \/ \E b \in Bindings, arg \in SetValueArgs, t \in BOOLEAN : SetValue(b, arg, t)
    \/ \E b \in Bindings : Render(b)
    \/ DispatchStorageEvent
    \/ \E b \in Bindings : Unmount(b)
    \/ \E i \in 0..Len(keysToRemove) : ClearAppData(i)
    \/ \E w \in SyncWrites : ExternalSetItem(w[1], w[2])
    \/ \E k \in SyncKeys : ExternalRemoveItem(k)
    \/ ExternalClear

Spec == Init /\ [][Next]_vars

\* The medium alone: other contexts writing any key, this context clearing
\* the application's data
NextClear ==
    \/ \E i \in 0..Len(keysToRemove) : ClearAppData(i)
    \/ \E k \in Keys, raw \in ExternalRaws : ExternalSetItem(k, raw)
    \/ \E k \in Keys : ExternalRemoveItem(k)
    \/ ExternalClear
    \/ DispatchStorageEvent

SpecClear == Init /\ [][NextClear]_vars

\* One context alone, its bindings storing values of every type
NextValues ==
    \/ \E b \in Bindings, k \in HookKeys, iv \in InitialValues, t \in BOOLEAN :
          UseLocalStorage(b, k, iv, t)
    \/ \E b \in Bindings : Subscribe(b)
    \/ \E b \in Bindings, v \in WideValues, t \in BOOLEAN :
          SetValue(b, Literal(v), t)
    \/ \E b \in Bindings : Render(b)
    \/ \E b \in Bindings : Unmount(b)

SpecValues == Init /\ [][NextValues]_vars

\* The form alone, under a caller that leaves isLoading at its default: the
\* user's events, the caller's todo and the completions of the onSubmit
\* invocations
NextForm ==
    \/ \E t \in TodoProps : MountForm(t)
    \/ \E t \in TodoProps : SwitchTodo(t)
    \/ \E f \in Fields : \E v \in FieldInputs(f) : HandleInputChange(f, v)
    \/ \E f \in Fields : HandleInputBlur(f)
    \/ HandleSubmit
    \/ \E k \in PressedKeys, m \in BOOLEAN : HandleKeyPress(k, m)
    \/ ClickCancel
    \/ \E i \in 1..MaxPending : ResolveSubmit(i)
    \/ \E i \in 1..MaxPending, m \in Messages : RejectSubmit(i, m)
    \/ UnmountForm

SpecForm == Init /\ [][NextForm]_vars

\* The form under a caller that passes isLoading, the user typing short
\* titles
NextLoading ==
    \/ \E t \in TodoProps : MountForm(t)
    \/ \E v \in BOOLEAN : SetLoading(v)
    \/ \E v \in {"", " a "} : HandleInputChange("title", v)
    \/ \E f \in Fields : HandleInputBlur(f)
    \/ HandleSubmit
    \/ \E k \in PressedKeys, m \in BOOLEAN : HandleKeyPress(k, m)
    \/ ClickCancel
    \/ \E i \in 1..MaxPending : ResolveSubmit(i)
    \/ \E i \in 1..MaxPending, m \in Messages : RejectSubmit(i, m)
    \/ UnmountForm

SpecLoading == Init /\ [][NextLoading]_vars

\* The subscriptions of bindings whose key changes between renders, with
\* other contexts writing both keys
NextLifecycle ==
    \/ \E b \in Bindings, k \in SyncKeys, iv \in InitialValues :
          UseLocalStorage(b, k, iv, FALSE)
    \/ \E b \in Bindings : Subscribe(b)
    \/ \E b \in Bindings, k \in SyncKeys : Rekey(b, k)
    \/ DispatchStorageEvent
    \/ \E b \in Bindings : Unmount(b)
    \/ \E k \in SyncKeys : ExternalSetItem(k, "1")
    \/ \E k \in SyncKeys : ExternalRemoveItem(k)

SpecLifecycle == Init /\ [][NextLifecycle]_vars

\* The availability status, with other contexts writing the medium
NextProbe ==
    \/ UseLocalStorageAvailable
    \/ \E st, rt \in BOOLEAN : CheckAvailable(st, rt)
    \/ \E w, st, rt \in BOOLEAN : CallIsLocalStorageAvailable(w, st, rt)
    \/ UnmountAvailable
    \/ \E k \in Keys : ExternalSetItem(k, "1")
    \/ \E k \in Keys \cup {testKey} : ExternalRemoveItem(k)
    \/ DispatchStorageEvent

SpecProbe == Init /\ [][NextProbe]_vars

----------------------------------------------------------------------------
(* Properties *)

Listening(b) == status[b] = "subscribed"

\* values JSON.parse(JSON.stringify(v)) gives back unchanged
SurvivesJSON(v) == v.type \in {"number", "string", "boolean", "null"}

\* the latest operation was a notification that names a key and carries a
\* string that is JSON
ValidNotification(l) ==
    /\ l.op = "storage"
    /\ ~l.key.isNull
    /\ ~l.item.isNull
    /\ JSONparse(l.item.text).ok

\* the cache of binding b is the decoded content of the medium under k
CacheMirrorsStorage(b, k) ==
    /\ k \in DOMAIN storage
    /\ JSONparse(storage[k]).ok
    /\ JSONparse(storage[k]).value = storedValue[b]

\* C1: right after a successful setValue on key K by any binding, or after
\* a valid notification for K was processed, the cache of every live binding
\* on K equals the decoded content stored under K.  The claim is taken in
\* its weakest form: the value written is serialisable, the notified string
\* is the one the medium still holds, and only bindings that have subscribed
\* count as live.
C1_CacheEqualsStorage ==
    LET wrote    == /\ last.op = "setValue"
                    /\ ~last.failed
                    /\ (~last.arg.isFunction => SurvivesJSON(last.arg.value))
        notified == /\ ValidNotification(last)
                    /\ GetItem(storage, last.key.text) = last.item
    IN (wrote \/ notified) =>
          \A b \in Bindings :
             (Listening(b) /\ bkey[b] = last.key.text) =>
                CacheMirrorsStorage(b, last.key.text)

\* C2: setValue(f) made when the binding's cache is C sets the cache to f(C)
\* and, when the write succeeds, stores the serialisation of f(C).
C2_UpdaterSeesCurrentCache ==
    [][(last'.op = "setValue" /\ last'.arg.isFunction) =>
          LET b  == last'.b
              fC == ApplyUpdater(last'.arg.fn, storedValue[b])
          IN /\ storedValue'[b] = fC
             /\ ~last'.failed =>
                   GetItem(storage', bkey[b]) = Item(SetItemText(JSONstringify(fC)))
      ]_vars

\* C3: when the storage write of setValue(V) throws, no error leaves
\* setValue, the cache is V and the medium is unchanged.
C3_FailedWriteKeepsCache ==
    [][(last'.op = "setValue" /\ last'.failed /\ ~last'.arg.isFunction) =>
          /\ ~last'.thrown
          /\ storedValue'[last'.b] = last'.arg.value
          /\ storage' = storage
      ]_vars

C3_Witness ==
    /\ last.op = "setValue"
    /\ last.failed
    /\ ~last.arg.isFunction
    /\ storedValue[last.b] = last.arg.value
    /\ storedValue[last.b] # rendered[last.b]
    /\ ~CacheMirrorsStorage(last.b, bkey[last.b])

\* C4: a binding initialised on key K directly after a successful
\* setValue(V) on K, V surviving a JSON round trip and storage readable,
\* starts with cache V.
C4_RoundTrip ==
    (/\ last.op = "init"
     /\ last.wrote
     /\ ~last.failed
     /\ ~last.follows.isFunction
     /\ SurvivesJSON(last.follows.value)) =>
        storedValue[last.b] = last.follows.value

C4_Witness ==
    /\ last.op = "init"
    /\ last.wrote
    /\ ~last.failed
    /\ last.follows = Literal(Str(""))
    /\ last.arg.value = Num(1)
    /\ storedValue[last.b] = Str("")

\* C5: initialisation never fails and never leaves the cache undefined: the
\* cache is initialValue when the key is absent, the stored string is not
\* JSON or the read throws, and the decoded stored string otherwise.
C5_InitialisationFallsBack ==
    last.op = "init" =>
       /\ ~last.thrown
       /\ storedValue[last.b] # Undefined
       /\ storedValue[last.b] =
             IF last.failed \/ last.item.isNull \/ ~JSONparse(last.item.text).ok
             THEN last.arg.value
             ELSE JSONparse(last.item.text).value

C5_Witness ==
    /\ last.op = "init"
    /\ ~last.failed
    /\ ~last.item.isNull
    /\ ~JSONparse(last.item.text).ok
    /\ storedValue[last.b] = last.arg.value
    /\ Warned(last.b) \in last.log

\* C6: a notification for key K with a non-null JSON string sets the cache
\* of every subscribed binding on K to the decoded string, whatever the
\* cache was, and writes nothing to the medium.
C6_NotificationAdopted ==
    [][ValidNotification(last') =>
          /\ \A b \in Bindings :
                (Listening(b) /\ bkey[b] = last'.key.text) =>
                   storedValue'[b] = JSONparse(last'.item.text).value
          /\ storage' = storage
      ]_vars

C6_Witness ==
    /\ ValidNotification(last)
    /\ \E b \in Bindings :
          /\ Listening(b)
          /\ bkey[b] = last.key.text
          /\ storedValue[b] = JSONparse(last.item.text).value
          /\ rendered[b] # storedValue[b]

\* C7: a notification that names another key or no key, or that reports a
\* removal, changes no binding's cache.
C7_ForeignOrRemovalIgnored ==
    [][last'.op = "storage" =>
          \A b \in Bindings :
             (\/ last'.key.isNull
              \/ last'.key.text # bkey[b]
              \/ last'.item.isNull) =>
                storedValue'[b] = storedValue[b]
      ]_vars

C7_Witness ==
    /\ last.op = "storage"
    /\ ~last.key.isNull
    /\ last.item.isNull
    /\ \E b \in Bindings :
          /\ Listening(b)
          /\ bkey[b] = last.key.text
          /\ bkey[b] \notin DOMAIN storage
          /\ storedValue[b] = Num(0)

\* C8: a notification for the binding's own key whose string is not JSON
\* leaves the cache unchanged, is logged as a warning and throws nothing.
C8_UnparsableNotificationIgnored ==
    [][(last'.op = "storage" /\ ~last'.key.isNull /\ ~last'.item.isNull
        /\ ~JSONparse(last'.item.text).ok) =>
          /\ ~last'.thrown
          /\ \A b \in Bindings :
                (Listening(b) /\ bkey[b] = last'.key.text) =>
                   /\ storedValue'[b] = storedValue[b]
                   /\ Warned(b) \in last'.log
      ]_vars

C8_Witness ==
    /\ last.op = "storage"
    /\ ~last.key.isNull
    /\ ~last.item.isNull
    /\ ~JSONparse(last.item.text).ok
    /\ \E b \in Bindings :
          /\ Listening(b)
          /\ bkey[b] = last.key.text
          /\ Warned(b) \in last.log
          /\ storedValue[b] = Num(0)

AppKeys == {"todos", "calendarSettings"}

\* C9: clearAppData leaves every key other than "todos" and
\* "calendarSettings" with the value it had and adds none; when no removal
\* throws, both of those keys are absent afterwards.
C9_ClearRemovesExactlyAppKeys ==
    [][last'.op = "clearAppData" =>
          /\ \A k \in (DOMAIN storage) \ AppKeys :
                k \in DOMAIN storage' /\ storage'[k] = storage[k]
          /\ \A k \in DOMAIN storage' :
                k \in DOMAIN storage /\ storage'[k] = storage[k]
          /\ ~last'.failed => (DOMAIN storage') \cap AppKeys = {}
      ]_vars

C9_Witness ==
    /\ last.op = "clearAppData"
    /\ ~last.failed
    /\ last.had = Keys
    /\ DOMAIN storage = Keys \ AppKeys

\* C10: when a removal throws, clearAppData logs the error and returns
\* normally.
C10_ClearNeverThrows ==
    (last.op = "clearAppData" /\ last.failed) =>
       /\ ~last.thrown
       /\ Errored("clearAppData") \in last.log

C10_Witness ==
    /\ last.op = "clearAppData"
    /\ last.failed
    /\ Errored("clearAppData") \in last.log
    /\ last.had \cap AppKeys # {}
    /\ "calendarSettings" \in DOMAIN storage

\* The form is in the state a submit attempt left
Submitted == formLast.op \in {"submit", "shortcut"}

ErrorIs(field, message) == field \in DOMAIN errors /\ errors[field] = message

\* C11: full validation of any draft reports "Title is required" iff the
\* trimmed title is empty, "Title must be 100 characters or less" iff the
\* trimmed title is longer than 100 characters and no title error otherwise,
\* reports a description error iff the untrimmed description is longer than
\* 500 characters, and succeeds iff neither field produced an error.
C11_FullValidation ==
    Submitted =>
        /\ ErrorIs("title", "Title is required") <=> Trim(formData.title) = ""
        /\ ErrorIs("title", "Title must be 100 characters or less")
               <=> Len(Trim(formData.title)) > 100
        /\ "title" \in DOMAIN errors
               <=> (Trim(formData.title) = "" \/ Len(Trim(formData.title)) > 100)
        /\ "description" \in DOMAIN errors <=> Len(formData.description) > 500
        /\ "submit" \notin DOMAIN errors
        /\ formLast.invoked = 1 <=> DOMAIN errors = {}

\* A padded title of exactly 100 characters passes while a description of 501
\* blanks fails
C11_Witness ==
    /\ Submitted
    /\ Len(formData.title) = 102 /\ Len(Trim(formData.title)) = 100
    /\ Len(formData.description) = 501 /\ Trim(formData.description) = ""
    /\ DOMAIN errors = {"description"}

\* The draft fails full validation
FailsValidation(fd) ==
    \/ Trim(fd.title) = ""
    \/ Len(Trim(fd.title)) > 100
    \/ Len(fd.description) > 500

\* C12: on every submit attempt, by the submit event or by Ctrl/Cmd+Enter, a
\* draft that fails full validation leaves onSubmit uninvoked and both fields
\* marked touched; no step invokes onSubmit with a draft that fails validation.
C12_InvalidDraftNeverSubmitted ==
    [][/\ (formLast'.op \in {"submit", "shortcut"} /\ FailsValidation(formData))
            => /\ formLast'.invoked = 0
               /\ pending' = pending
               /\ touched' = {"title", "description"}
       /\ (formLast'.invoked > 0 \/ Len(pending') > Len(pending))
            => ~FailsValidation(formData)]_vars

\* The shortcut was pressed on a failing draft
C12_Witness ==
    /\ formLast.op = "shortcut"
    /\ FailsValidation(formData)
    /\ formLast.invoked = 0
    /\ pending = <<>>
    /\ touched = {"title", "description"}

\* C13: after a submit attempt that failed validation because of the title,
\* once the draft passes full validation the next submit attempt invokes
\* onSubmit exactly once, with the trimmed title, the trimmed description and
\* selectedDate of the current draft.
C13_CorrectedTitleSubmitsOnce ==
    [][(/\ formLast.titleFailed
        /\ formLast'.op \in {"submit", "shortcut"}
        /\ ~FailsValidation(formData))
          => /\ formLast'.invoked = 1
             /\ Len(pending') = Len(pending) + 1
             /\ formData' = formData
             /\ formLast'.payload = [title |-> Trim(formData.title),
                                     description |-> Trim(formData.description),
                                     date |-> selectedDate]]_vars

\* The retry of a draft whose title and description carry white space
C13_Witness ==
    /\ formLast.op \in {"submit", "shortcut"}
    /\ formLast.retry
    /\ formLast.invoked = 1
    /\ Len(pending) = 1
    /\ formData.title # formLast.payload.title
    /\ formData.description # formLast.payload.description
    /\ formLast.payload.title = Trim(formData.title)
    /\ formLast.payload.date = selectedDate

\* The slot of the error map for a field is the same in the next state
SlotKept(field) ==
    /\ field \in DOMAIN errors <=> field \in DOMAIN errors'
    /\ field \in DOMAIN errors => errors'[field] = errors[field]

\* C14: when onSubmit rejects, whatever field updates and blurs happened
\* while it was pending, the rejection sets the "submit" slot only: the title
\* and description slots of the error map and the draft are the same after
\* the rejection as immediately before it.
C14_RejectionSetsSubmitOnly ==
    [][(formLast'.op = "reject" /\ ~formLast'.stale /\ ~formLast'.orphan)
          => /\ "submit" \in DOMAIN errors'
             /\ errors'["submit"] \in {"Server error", "Failed to save todo"}
             /\ SlotKept("title")
             /\ SlotKept("description")
             /\ formData' = formData]_vars

\* No message is held by the error map
NoErrorPresent == \A f \in DOMAIN errors : errors[f] = ""

\* C15: when the todo being edited is replaced, the draft is reset (seeded
\* from the new todo, empty when there is none) and the error map and the
\* touched set are emptied; until the next user event on the new form no
\* error from the previous todo is present, the "submit" error of a submit
\* still pending at the switch included.
C15_SwitchLeavesNoStaleError ==
    (mounted /\ formLast.fresh) =>
        /\ formData = IF todo.isNull THEN [title |-> "", description |-> ""]
                      ELSE [title |-> todo.title, description |-> todo.description]
        /\ touched = {}
        /\ NoErrorPresent

\* C16: once the form is torn down, the completion of a pending onSubmit
\* invocation, resolved or rejected, calls no state setter of the form and
\* leaves its state as it was.
C16_NoWriteAfterTeardown ==
    [][(formLast'.op \in {"resolve", "reject"} /\ formLast'.orphan)
          => /\ formLast'.setters = {}
             /\ UNCHANGED <<formData, errors, touched>>]_vars

\* The field of the form that is not f
OtherField(f) == IF f = "title" THEN "description" ELSE "title"

\* C20: a field update on field F sets the draft's F to the typed value,
\* leaves the other draft field and the touched set unchanged, clears F's
\* error when F has one and otherwise leaves the error map as it is; it
\* touches no other field's error and runs no validation.
C20_FieldUpdateFrame ==
    [][formLast'.op = "change"
          => /\ formData'[formLast'.field] = formLast'.value
             /\ formData'[OtherField(formLast'.field)]
                    = formData[OtherField(formLast'.field)]
             /\ touched' = touched
             /\ \A f \in {"title", "description", "submit"} \ {formLast'.field} :
                    SlotKept(f)
             /\ IF formLast'.field \in DOMAIN errors /\ errors[formLast'.field] # ""
                THEN /\ formLast'.field \in DOMAIN errors'
                     /\ errors'[formLast'.field] = ""
                ELSE SlotKept(formLast'.field)]_vars

\* An empty title typed over a title error while the description error stays
C20_Witness ==
    /\ formLast.op = "change"
    /\ formLast.field = "title"
    /\ formData.title = ""
    /\ "title" \in DOMAIN errors /\ errors["title"] = ""
    /\ "description" \in DOMAIN errors /\ errors["description"] # ""
    /\ touched = {"title", "description"}

\* C17: the availability status is false until the first check has run; after
\* the check it is the result of the probe, which is true iff the trial write
\* and the trial removal of the sentinel key both succeeded, and which throws
\* nothing when either of them throws.
C17_AvailabilityStatus ==
    /\ availStatus \in {"unmounted", "rendered"} => ~isAvailable
    /\ availStatus = "checked" => (probed.ran /\ isAvailable = probed.result)
    /\ probed.ran =>
          /\ probed.result <=> (probed.window /\ ~probed.setFailed /\ ~probed.removeFailed)
          /\ ~probed.thrown

\* The first check ran on a medium whose trial removal threw
C17_Witness ==
    /\ availStatus = "checked"
    /\ probed.removeFailed
    /\ ~isAvailable
    /\ testKey \in DOMAIN storage

\* C18: when another context wrote a JSON text of value V under the key of a
\* binding after the binding's initialisation read, and nothing wrote the key
\* since, the binding's cached value is V once it is subscribed and every
\* notification has been delivered; a write made between the initialisation
\* read and the subscription is not lost.
C18_ExternalWriteReachesCache ==
    \A b \in Bindings :
        (status[b] = "subscribed" /\ owed[b] /\ events = <<>>) =>
            /\ bkey[b] \in DOMAIN storage
            /\ JSONparse(storage[bkey[b]]).ok
            /\ storedValue[b] = JSONparse(storage[bkey[b]]).value

\* C19 as stated: a live binding holds at most one subscription, which
\* always filters on the binding's current key; after teardown it holds none,
\* and no notification delivered after teardown changes its cached value.
C19_SubscriptionOnCurrentKey ==
    [][\A b \in Bindings :
          /\ Len(listeners'[b]) <= 1
          /\ listeners'[b] # <<>> => listeners'[b][1] = bkey'[b]
          /\ status'[b] = "unmounted" => listeners'[b] = <<>>
          /\ (status[b] = "unmounted" /\ last'.op = "storage")
                => storedValue'[b] = storedValue[b]]_vars

\* C19: a live binding holds at most one subscription at any time; once the
\* effect that follows a render has run, the subscription filters on the
\* binding's current key, and between a key change and that effect the
\* subscription on the previous key is still the one held (the effect
\* releases it before it acquires the new one); after teardown the binding
\* holds no subscription, and no notification delivered after teardown
\* changes its cached value.
C19_SubscriptionLifecycle ==
    [][\A b \in Bindings :
          /\ Len(listeners'[b]) <= 1
          /\ status'[b] = "subscribed" => listeners'[b] = <<bkey'[b]>>
          /\ (status'[b] = "rendered" /\ listeners'[b] # <<>>)
                => (listeners'[b] = listeners[b] /\ listeners'[b][1] # bkey'[b])
          /\ status'[b] = "unmounted" => listeners'[b] = <<>>
          /\ (status[b] = "unmounted" /\ last'.op = "storage")
                => storedValue'[b] = storedValue[b]]_vars

\* The effect after a key change released the subscription on "todos" and
\* acquired one on "otherKey"
C19_Witness ==
    /\ last.op = "subscribe"
    /\ last.had = {"todos"}
    /\ listeners[last.b] = <<"otherKey">>
    /\ bkey[last.b] = "otherKey"

\* C21: while isLoading is true and a submission is pending, no submit path of
\* the form, the submit button or the Ctrl/Cmd+Enter shortcut, invokes
\* onSubmit: the pending submission is not followed by a second invocation
\* before it completes.
C21_LoadingBlocksSubmit ==
    [][(isLoading /\ pending # <<>>)
          => /\ formLast'.invoked = 0
             /\ Len(pending') <= Len(pending)]_vars

====
